---- MODULE Spec2Model ----
(***************************************************************************)
(* Model of client/app/components/PermissionsEditorDialog/index.jsx:       *)
(* the permissions dialog (loadAll, grant/revoke, selection filters), the  *)
(* UserSelect search widget and normalizePermissionsShape.                 *)
(***************************************************************************)
EXTENDS Integers, Sequences, FiniteSets, Bags, TLC

VARIABLES
  \* ---- PermissionsEditorDialog state (useState, lines 161-166) ----
  loading, grants, allGroups,
  closed,          \* dialog.close() has been called
  notifications,   \* notification.error: the number of calls and the message of the last one
  \* ---- requests of the dialog in flight ----
  loads,           \* bag of the loadAll calls whose Promise.all has not settled
  muts,            \* bag of the grant/revoke requests whose promise has not settled
  issued,          \* number of grant/revoke requests issued so far
  \* ---- the server behind aclUrl ----
  srv,             \* permission state held by the server
  permFailed,      \* some permission fetch has failed so far
  \* ---- UserSelect state (useState, lines 90-92) ----
  loadingUsers, users, searchTerm,
  timerArgs,       \* debounce: arguments of the pending trailing call, or NoTimer
  sinceCall,       \* debounce: time elapsed since the last call of the debounced function
  lookups,         \* searchUsers calls whose promise has not settled, oldest first
  appliedTerm,     \* search term whose lookup result was last passed to setUsers
  keys,            \* number of search-term changes so far
  \* ---- normalizePermissionsShape exercised on its own ----
  data, out, npc

vars == <<loading, grants, allGroups, closed, notifications, loads, muts, issued,
          srv, permFailed, loadingUsers, users, searchTerm, timerArgs, sinceCall,
          lookups, appliedTerm, keys, data, out, npc>>

dialogVars == <<loading, grants, allGroups, closed, notifications, loads, muts,
                issued, srv, permFailed>>
searchVars == <<loadingUsers, users, searchTerm, timerArgs, sinceCall, lookups,
                appliedTerm, keys>>
normVars   == <<data, out, npc>>

\* ------------------------------ bounds ---------------------------------
MaxGroup == 1       \* group ids are 1..MaxGroup
MaxMutations == 2   \* grant/revoke requests issued in one run
MaxInFlight == 2    \* requests (loads and mutations) of the dialog in flight at once
MaxKeys == 3        \* search-term changes in one run
MaxLookups == 2     \* user lookups in flight at once
MaxTerm == 2        \* longest search term typed
TickStep == 100     \* time that passes in one step of the clock
MaxLen == 2         \* longest list in a payload handed to normalizePermissionsShape

DEBOUNCE_SEARCH_DURATION == 200
ACCESS_TYPES == {"view", "modify"}

\* ------------------------- users and groups ----------------------------
UserIds == {1, 2}   \* the author and one other user
GroupIds == 1..MaxGroup
\* names are prefixes of one word, so that a longer search term matches fewer users
Letters == <<"a", "l", "i", "c", "e">>
Min(a, b) == IF a <= b THEN a ELSE b
UserRec(i) == [id |-> i, name |-> SubSeq(Letters, 1, Min(i, Len(Letters)))]
GroupRec(i) == [id |-> i, name |-> "group"]
author == UserRec(1)

\* the ascending sequence of a set of ids
RECURSIVE SortedIds(_)
SortedIds(S) ==
  IF S = {} THEN << >>
  ELSE LET m == CHOOSE x \in S : \A y \in S : x <= y
       IN <<m>> \o SortedIds(S \ {m})
UsersOfIds(S) == [i \in 1..Cardinality(S) |-> UserRec(SortedIds(S)[i])]
GroupsOfIds(S) == [i \in 1..Cardinality(S) |-> GroupRec(SortedIds(S)[i])]

IdsOf(s) == {s[i].id : i \in 1..Len(s)}

\* ---------------------------- JS values --------------------------------
\* A JS value is a record of its kind and, for an array, its items.
Kinds == {"undefined", "null", "zero", "number", "string", "array", "object"}
Leaf(k, s) == [kind |-> k, items |-> s]
Undefined == Leaf("undefined", << >>)
Arr(s) == Leaf("array", s)

\* !v
Truthy(v) == v.kind \notin {"undefined", "null", "zero"}
\* typeof v
TypeOf(v) ==
  CASE v.kind = "undefined" -> "undefined"
    [] v.kind \in {"zero", "number"} -> "number"
    [] v.kind = "string" -> "string"
    [] OTHER -> "object"
IsArray(v) == v.kind = "array"

\* a value found under a category key: val, with val.users and val.groups
Cat(k, s, u, g) == [kind |-> k, items |-> s, users |-> u, groups |-> g]
CatPlain(k) == Cat(k, << >>, Undefined, Undefined)
CatArr(s) == Cat("array", s, Undefined, Undefined)
CatObj(u, g) == Cat("object", << >>, u, g)
\* a permission payload: data, with data.view and data.modify
Payload(k, v, m) == [kind |-> k, view |-> v, modify |-> m]
PayloadPlain(k) == Payload(k, CatPlain("undefined"), CatPlain("undefined"))
EmptyObject == PayloadPlain("object")
\* data[key]
GetKey(d, key) == IF d.kind = "object" THEN d[key] ELSE CatPlain("undefined")

\* ---------------------- normalizePermissionsShape ----------------------
EmptyAccessList == [users |-> << >>, groups |-> << >>]
EmptyGrantSet == [view |-> EmptyAccessList, modify |-> EmptyAccessList]

\* NormalizeKey without the legacy branch: an array under a key is dropped
NormalizeKey_NoLegacy(val) ==
  IF ~Truthy(val) \/ IsArray(val) THEN EmptyAccessList
  ELSE IF TypeOf(val) = "object"
       THEN [users  |-> IF IsArray(val.users) THEN val.users.items ELSE << >>,
             groups |-> IF IsArray(val.groups) THEN val.groups.items ELSE << >>]
  ELSE EmptyAccessList

NormalizeKey(val) ==
  IF ~Truthy(val) THEN EmptyAccessList
  ELSE IF IsArray(val) THEN [users |-> val.items, groups |-> << >>]
  ELSE IF TypeOf(val) = "object"
       THEN [users  |-> IF IsArray(val.users) THEN val.users.items ELSE << >>,
             groups |-> IF IsArray(val.groups) THEN val.groups.items ELSE << >>]
  ELSE EmptyAccessList

normalizePermissionsShape(d) ==
  IF ~Truthy(d) \/ TypeOf(d) # "object" THEN EmptyGrantSet
  ELSE [key \in ACCESS_TYPES |-> NormalizeKey(GetKey(d, key))]

\* a GrantSet written as a payload of the current shape
AsPayload(g) ==
  Payload("object", CatObj(Arr(g.view.users), Arr(g.view.groups)),
                    CatObj(Arr(g.modify.users), Arr(g.modify.groups)))

\* ------------------------------ helpers --------------------------------
RemoveAt(s, i) == SubSeq(s, 1, i - 1) \o SubSeq(s, i + 1, Len(s))
\* a bag of requests in flight with one more, one less, one replaced
With(b, x) == b (+) SetToBag({x})
Without(b, x) == b (-) SetToBag({x})
Replaced(b, x, y) == With(Without(b, x), y)
Field(kind) == IF kind = "user" THEN "users" ELSE "groups"

\* ------------------- the server behind aclUrl and /api/groups ----------
\* GET aclUrl: the grants held by the server, as a GrantSet
ServerGrantSet ==
  [t \in ACCESS_TYPES |-> [users  |-> UsersOfIds(srv[t].users),
                           groups |-> GroupsOfIds(srv[t].groups)]]
\* the two wire shapes of the permission payload; the legacy one carries users only
ServerPayload(shape) ==
  IF shape = "legacy"
  THEN Payload("object", CatArr(ServerGrantSet.view.users), CatArr(ServerGrantSet.modify.users))
  ELSE AsPayload(ServerGrantSet)
ServerShapes ==
  IF srv.view.groups = {} /\ srv.modify.groups = {} THEN {"current", "legacy"} ELSE {"current"}
\* POST / DELETE aclUrl
ServerApplied(m) ==
  [srv EXCEPT ![m.type][Field(m.kind)] =
     IF m.op = "grant" THEN @ \cup {m.id} ELSE @ \ {m.id}]
\* GET /api/groups: a bare sequence, or a mapping with a results field
GroupDir == GroupsOfIds(GroupIds)
GroupsRes(k, s, r) == [kind |-> k, items |-> s, results |-> r]
GroupsResponse(shape) ==
  CASE shape = "array"   -> GroupsRes("array", GroupDir, Undefined)
    [] shape = "results" -> GroupsRes("object", << >>, Arr(GroupDir))
    [] OTHER             -> GroupsRes("object", << >>, Undefined)
GroupShapes == {"array", "results", "bare"}

\* ------------------------- listAllGroups (64-68) -----------------------
\* the value the promise of listAllGroups resolves to
listAllGroups(ok, res) ==
  IF ~ok THEN << >>
  ELSE IF IsArray(res) THEN res.items
  ELSE IF Truthy(res.results) THEN res.results.items ELSE << >>

\* the value axios.get(aclUrl).catch(() => ({})) resolves to (171)
permFetch(ok, res) == IF ok THEN res ELSE EmptyObject

\* --------------------- selection filters (224-238) ---------------------
\* get(find(list, { id }), "id"); 0 stands for undefined, which is as falsy as 0
FindId(list, id) ==
  IF \E i \in 1..Len(list) : list[i].id = id
  THEN list[CHOOSE i \in 1..Len(list) :
              list[i].id = id /\ \A j \in 1..(i - 1) : list[j].id # id].id
  ELSE 0

\* userHasPermission looking in the view list whatever the type
userHasPermission_ViewOnly(u, type) ==
  u.id = author.id \/ FindId(grants["view"].users, u.id) # 0

userHasPermission(u, type) ==
  u.id = author.id \/ FindId(grants[type].users, u.id) # 0

shouldShowUser(u, type) == ~userHasPermission(u, type)

\* the options of a UserSelect of category type whose lookup returned results (120, 248)
OfferedUsers(results, type) ==
  SelectSeq(results, LAMBDA u : shouldShowUser(u, type))

\* availableGroups leaving out the groups of grants.view only
availableGroups_ViewOnly ==
  LET grantedIds == IdsOf(grants.view.groups)
  IN SelectSeq(allGroups, LAMBDA g : g.id \notin grantedIds)

availableGroups ==
  LET grantedIds == IdsOf(grants.view.groups) \cup IdsOf(grants.modify.groups)
  IN SelectSeq(allGroups, LAMBDA g : g.id \notin grantedIds)

\* ------------------------------ loadAll --------------------------------
NoCause == [op |-> "mount", kind |-> "user", type |-> "view", id |-> 0]
NewLoad(cause) ==
  [permSt |-> "pending", perm |-> PayloadPlain("undefined"),
   cause |-> cause, held |-> FALSE]

\* loadAll that sets the flag and issues no fetch
loadAll_NoFetch(cause) ==
  /\ loading' = TRUE
  /\ loads' = loads

\* loadAll up to its first suspension: setLoading(true) and the two fetches issued
loadAll(cause) ==
  /\ loading' = TRUE
  /\ loads' = With(loads, NewLoad(cause))

\* the server answers the permission fetch of load l with a payload of the given
\* shape, or (~ok) the fetch fails and there is no payload
PermRespond(l, ok, shape) ==
  /\ BagIn(l, loads)
  /\ l.permSt = "pending"
  /\ shape \in ServerShapes
  /\ loads' = Replaced(loads, l,
                [l EXCEPT !.permSt = IF ok THEN "ok" ELSE "failed",
                          !.perm = permFetch(ok, ServerPayload(shape)),
                          !.held = ok /\ (l.cause.op = "grant")
                                          = (l.cause.id \in srv[l.cause.type][Field(l.cause.kind)])])
  /\ permFailed' = (permFailed \/ ~ok)
  /\ UNCHANGED <<loading, grants, allGroups, closed, notifications, muts, issued, srv>>
  /\ UNCHANGED <<searchVars, normVars>>

\* LoadComplete that leaves grants alone when the permission fetch failed
LoadComplete_KeepStale(l, ok, shape) ==
  /\ BagIn(l, loads)
  /\ l.permSt # "pending"
  /\ grants' = IF l.permSt = "failed" THEN grants
               ELSE normalizePermissionsShape(l.perm)
  /\ allGroups' = listAllGroups(ok, GroupsResponse(shape))
  /\ loading' = FALSE
  /\ loads' = Without(loads, l)
  /\ UNCHANGED <<closed, notifications, muts, issued, srv, permFailed>>
  /\ UNCHANGED <<searchVars, normVars>>

\* The group fetch of load l is answered, or (~ok) fails, and with it Promise.all settles:
\* the then and finally callbacks (174-179). The group directory does not change, so
\* a group fetch answered before the permission fetch yields the same step.
LoadComplete(l, ok, shape) ==
  /\ BagIn(l, loads)
  /\ l.permSt # "pending"
  /\ grants' = normalizePermissionsShape(l.perm)
  /\ allGroups' = listAllGroups(ok, GroupsResponse(shape))
  /\ loading' = FALSE
  /\ loads' = Without(loads, l)
  /\ UNCHANGED <<closed, notifications, muts, issued, srv, permFailed>>
  /\ UNCHANGED <<searchVars, normVars>>

\* --------------------- grant / revoke (187-221) ------------------------
\* notification.error(message)
NoNotification == [count |-> 0, last |-> ""]
notify(message) == [count |-> notifications.count + 1, last |-> message]

ErrorMessage(m) ==
  CASE m.op = "grant"  /\ m.kind = "user"  -> "Could not grant permission to the user"
    [] m.op = "revoke" /\ m.kind = "user"  -> "Could not remove permission from the user"
    [] m.op = "grant"  /\ m.kind = "group" -> "Could not grant permission to the group"
    [] OTHER                               -> "Could not remove permission from the group"

Request(op, kind, type, id) ==
  [op |-> op, kind |-> kind, type |-> type, id |-> id, st |-> "sent"]
CauseOf(m) == [op |-> m.op, kind |-> m.kind, type |-> m.type, id |-> m.id]

\* the widgets are rendered while the dialog is open and not loading (341-358)
WidgetsShown == ~closed /\ ~loading
CanIssue ==
  issued < MaxMutations /\ BagCardinality(loads) + BagCardinality(muts) < MaxInFlight

Issue(m) ==
  /\ muts' = With(muts, m)
  /\ issued' = issued + 1
  /\ UNCHANGED <<loading, grants, allGroups, closed, notifications, loads, srv, permFailed>>
  /\ UNCHANGED <<searchVars, normVars>>

\* onSelect of the UserSelect of category type (248): the lookup may have returned
\* any user of the directory, and the options are those shouldShowUser lets through
grantUser(type, userId) ==
  /\ WidgetsShown /\ CanIssue
  /\ shouldShowUser(UserRec(userId), type)
  /\ Issue(Request("grant", "user", type, userId))

\* the Revoke button of a listed user, absent on the author's entry (262-265)
revokeUser(type, userId) ==
  /\ WidgetsShown /\ CanIssue
  /\ userId \in IdsOf(grants[type].users)
  /\ userId # author.id
  /\ Issue(Request("revoke", "user", type, userId))

\* onSelect of the GroupSelect, which lists availableGroups (285)
grantGroup(type, groupId) ==
  /\ WidgetsShown /\ CanIssue
  /\ groupId \in IdsOf(availableGroups)
  /\ Issue(Request("grant", "group", type, groupId))

\* the Revoke button of a listed group (297)
revokeGroup(type, groupId) ==
  /\ WidgetsShown /\ CanIssue
  /\ groupId \in IdsOf(grants[type].groups)
  /\ Issue(Request("revoke", "group", type, groupId))

\* the server carries out request m
ServerApply(m) ==
  /\ BagIn(m, muts)
  /\ m.st = "sent"
  /\ srv' = ServerApplied(m)
  /\ muts' = Replaced(muts, m, [m EXCEPT !.st = "ok"])
  /\ UNCHANGED <<loading, grants, allGroups, closed, notifications, loads, issued, permFailed>>
  /\ UNCHANGED <<searchVars, normVars>>

\* .then(loadAll) of request m
MutationThen(m) ==
  /\ BagIn(m, muts)
  /\ m.st = "ok"
  /\ loadAll(CauseOf(m))
  /\ muts' = Without(muts, m)
  /\ UNCHANGED <<grants, allGroups, closed, notifications, issued, srv, permFailed>>
  /\ UNCHANGED <<searchVars, normVars>>

\* MutationCatch that reloads after reporting the failure
MutationCatch_Reload(m) ==
  /\ BagIn(m, muts)
  /\ m.st = "sent"
  /\ notifications' = notify(ErrorMessage(m))
  /\ muts' = Without(muts, m)
  /\ loadAll(CauseOf(m))
  /\ UNCHANGED <<grants, allGroups, closed, issued, srv, permFailed>>
  /\ UNCHANGED <<searchVars, normVars>>

\* request m fails, the server's state untouched:
\* .catch(() => notification.error(...)) of request m
MutationCatch(m) ==
  /\ BagIn(m, muts)
  /\ m.st = "sent"
  /\ notifications' = notify(ErrorMessage(m))
  /\ muts' = Without(muts, m)
  /\ UNCHANGED <<loading, grants, allGroups, closed, loads, issued, srv, permFailed>>
  /\ UNCHANGED <<searchVars, normVars>>

\* the Close button (337)
Close ==
  /\ ~closed
  /\ closed' = TRUE
  /\ UNCHANGED <<loading, grants, allGroups, notifications, loads, muts, issued,
                 srv, permFailed>>
  /\ UNCHANGED <<searchVars, normVars>>

\* ------------------------- UserSelect (89-128) -------------------------
UserDir == UsersOfIds(UserIds)
Terms == {SubSeq(Letters, 1, n) : n \in 0..Min(MaxTerm, Len(Letters))}
IsPrefix(t, name) == Len(t) <= Len(name) /\ SubSeq(name, 1, Len(t)) = t
\* User.query({ q }): the users of the directory matching the term
UserQuery(term) == [results |-> SelectSeq(UserDir, LAMBDA u : IsPrefix(term, u.name))]

\* the value the promise of searchUsers resolves to (58-61)
searchUsers(ok, res) == IF ok THEN res.results ELSE << >>

NoTimer == [pending |-> FALSE, term |-> << >>]

\* a call of the debounced function: the trailing call is (re)scheduled with these arguments
debouncedSearchUsers(term) ==
  /\ timerArgs' = [pending |-> TRUE, term |-> term]
  /\ sinceCall' = 0

\* onSearch={setSearchTerm} and the effect that follows a changed searchTerm (99-102)
onSearch(term) ==
  /\ keys < MaxKeys
  /\ term \in Terms
  /\ term # searchTerm
  /\ searchTerm' = term
  /\ loadingUsers' = TRUE
  /\ debouncedSearchUsers(term)
  /\ keys' = keys + 1
  /\ UNCHANGED <<users, lookups, appliedTerm>>
  /\ UNCHANGED <<dialogVars, normVars>>

\* time passes
Tick ==
  /\ sinceCall < DEBOUNCE_SEARCH_DURATION
  /\ sinceCall' = Min(sinceCall + TickStep, DEBOUNCE_SEARCH_DURATION)
  /\ UNCHANGED <<loadingUsers, users, searchTerm, timerArgs, lookups, appliedTerm, keys>>
  /\ UNCHANGED <<dialogVars, normVars>>

\* the debounce timer expires after the quiet interval: searchUsers(search) is called (95)
TimerFire ==
  /\ timerArgs.pending
  /\ sinceCall >= DEBOUNCE_SEARCH_DURATION
  /\ Len(lookups) < MaxLookups
  /\ lookups' = Append(lookups, [term |-> timerArgs.term])
  /\ timerArgs' = NoTimer
  /\ UNCHANGED <<loadingUsers, users, searchTerm, sinceCall, appliedTerm, keys>>
  /\ UNCHANGED <<dialogVars, normVars>>

\* the promise of lookup i settles: .then(setUsers).finally(() => setLoadingUsers(false)) (95)
LookupDone(i, ok) ==
  /\ i \in 1..Len(lookups)
  /\ users' = searchUsers(ok, UserQuery(lookups[i].term))
  /\ loadingUsers' = FALSE
  /\ appliedTerm' = lookups[i].term
  /\ lookups' = RemoveAt(lookups, i)
  /\ UNCHANGED <<searchTerm, timerArgs, sinceCall, keys>>
  /\ UNCHANGED <<dialogVars, normVars>>

\* --------------- normalizePermissionsShape on its own ------------------
Reverse(s) == [i \in 1..Len(s) |-> s[Len(s) + 1 - i]]
ListsOf(dir) == {SubSeq(dir, 1, Min(k, Len(dir))) : k \in 0..MaxLen} \cup {Reverse(dir)}
LeafValues(dir) ==
  {Leaf(k, << >>) : k \in {"undefined", "null", "number", "string"}}
    \cup {Arr(l) : l \in ListsOf(dir)}
CatValues ==
  {CatPlain(k) : k \in {"undefined", "null", "zero", "number", "string"}}
    \cup {CatArr(l) : l \in ListsOf(UserDir)}
    \cup {CatObj(u, g) : u \in LeafValues(UserDir), g \in LeafValues(GroupDir)}
Payloads ==
  {PayloadPlain(k) : k \in Kinds}
    \cup {Payload("object", v, m) : v \in CatValues, m \in CatValues}

\* a call of normalizePermissionsShape(data)
Normalize ==
  /\ npc = "call"
  /\ out' = normalizePermissionsShape(data)
  /\ npc' = "return"
  /\ UNCHANGED data
  /\ UNCHANGED <<dialogVars, searchVars>>

\* the returned GrantSet is handed to normalizePermissionsShape again
Renormalize ==
  /\ npc = "return"
  /\ data # AsPayload(out)
  /\ data' = AsPayload(out)
  /\ npc' = "call"
  /\ UNCHANGED out
  /\ UNCHANGED <<dialogVars, searchVars>>

\* ---------------------------- specifications ---------------------------
DialogInit ==
  /\ loading = TRUE
  /\ grants = EmptyGrantSet
  /\ allGroups = << >>
  /\ closed = FALSE
  /\ notifications = NoNotification
  /\ loads = SetToBag({NewLoad(NoCause)})
  /\ muts = EmptyBag
  /\ issued = 0
  /\ srv \in {[view |-> [users |-> u, groups |-> {}],
               modify |-> [users |-> {}, groups |-> {}]] : u \in {{}, {author.id}}}
  /\ permFailed = FALSE

SearchInit ==
  /\ loadingUsers = TRUE
  /\ users = << >>
  /\ searchTerm = << >>
  /\ timerArgs = [pending |-> TRUE, term |-> << >>]
  /\ sinceCall = 0
  /\ lookups = << >>
  /\ appliedTerm = << >>
  /\ keys = 0

NormIdle == data = PayloadPlain("undefined") /\ out = EmptyGrantSet /\ npc = "idle"

Init == DialogInit /\ SearchInit /\ NormIdle

Next ==
  \/ \E t \in ACCESS_TYPES, u \in UserIds : grantUser(t, u)
  \/ \E t \in ACCESS_TYPES, u \in UserIds : revokeUser(t, u)
  \/ \E t \in ACCESS_TYPES, g \in GroupIds : grantGroup(t, g)
  \/ \E t \in ACCESS_TYPES, g \in GroupIds : revokeGroup(t, g)
  \/ \E m \in BagToSet(muts) : ServerApply(m)
  \/ \E m \in BagToSet(muts) : MutationThen(m)
  \/ \E m \in BagToSet(muts) : MutationCatch(m)
  \/ \E l \in BagToSet(loads), shape \in ServerShapes : PermRespond(l, TRUE, shape)
  \/ \E l \in BagToSet(loads) : PermRespond(l, FALSE, "current")
  \/ \E l \in BagToSet(loads), shape \in GroupShapes : LoadComplete(l, TRUE, shape)
  \/ \E l \in BagToSet(loads) : LoadComplete(l, FALSE, "bare")
  \/ Close

Spec == Init /\ [][Next]_vars

\* the search widget on its own, under a dialog that has loaded
InitSearch ==
  /\ SearchInit /\ NormIdle
  /\ loading = FALSE
  /\ grants = EmptyGrantSet
  /\ allGroups = GroupDir
  /\ closed = FALSE
  /\ notifications = NoNotification
  /\ loads = EmptyBag
  /\ muts = EmptyBag
  /\ issued = 0
  /\ srv = [view |-> [users |-> {}, groups |-> {}], modify |-> [users |-> {}, groups |-> {}]]
  /\ permFailed = FALSE

NextSearch ==
  \/ \E term \in Terms : onSearch(term)
  \/ Tick
  \/ TimerFire
  \/ \E i \in 1..Len(lookups), ok \in BOOLEAN : LookupDone(i, ok)

SpecSearch == InitSearch /\ [][NextSearch]_vars

\* normalizePermissionsShape on every payload of Payloads
InitNorm ==
  /\ DialogInit /\ SearchInit
  /\ srv = [view |-> [users |-> {}, groups |-> {}], modify |-> [users |-> {}, groups |-> {}]]
  /\ data \in Payloads
  /\ out = EmptyGrantSet
  /\ npc = "call"

NextNorm == Normalize \/ Renormalize

SpecNorm == InitNorm /\ [][NextNorm]_vars

\* ============================== claims =================================
Quiescent == loads = EmptyBag /\ muts = EmptyBag
\* the grant list of m's category shows m's effect
Reflects(g, m) ==
  IF m.op = "grant" THEN m.id \in IdsOf(g[m.type][Field(m.kind)])
  ELSE m.id \notin IdsOf(g[m.type][Field(m.kind)])

\* C1: once every in-flight request has settled, and no permission fetch failed, the
\* displayed grants equal the normalized permission state held by the server.
C1_FinalStateMatchesServer ==
  (Quiescent /\ ~permFailed) =>
    grants = normalizePermissionsShape(ServerPayload("current"))

\* C2 as claimed: a successful grant or revoke issues exactly one loadAll, and whenever
\* that reload completes the displayed list of the access type reflects the mutation.
C2_ReloadAlwaysReflects ==
  [][ /\ \A m \in BagToSet(muts) :
           (muts' = Without(muts, m) /\ m.st = "ok") =>
              /\ loads' = With(loads, NewLoad(CauseOf(m)))
              /\ loading'
      /\ \A l \in BagToSet(loads) :
           (loads' = Without(loads, l) /\ l.cause.op # "mount") =>
              Reflects(grants', l.cause) ]_vars

\* C2 as amended: a successful grant or revoke issues exactly one loadAll, and when that
\* reload completes after a successful permission fetch that the server answered while
\* it still held the mutation's effect, the displayed list reflects the mutation.
C2_ReloadReflectsFetched ==
  [][ /\ \A m \in BagToSet(muts) :
           (muts' = Without(muts, m) /\ m.st = "ok") =>
              /\ loads' = With(loads, NewLoad(CauseOf(m)))
              /\ loading'
      /\ \A l \in BagToSet(loads) :
           (/\ loads' = Without(loads, l)
            /\ l.cause.op # "mount"
            /\ l.permSt = "ok"
            /\ l.held) =>
              Reflects(grants', l.cause) ]_vars

\* a reload after a successful grant of a user under modify has completed
\* and the modify list shows that user
C2_Witness ==
  /\ Quiescent /\ ~loading /\ issued > 0
  /\ \E u \in UserIds \ {author.id} : u \in IdsOf(grants.modify.users)

\* C3: when the request of a grant or revoke fails, no loadAll is triggered, grants,
\* groups and loading stay as they were, exactly one notification of the operation's
\* category is raised, and the request is not issued again.
C3_FailedMutationLeavesState ==
  [][ \A m \in BagToSet(muts) :
        (muts' = Without(muts, m) /\ m.st = "sent") =>
           /\ loads' = loads
           /\ loading' = loading
           /\ grants' = grants
           /\ allGroups' = allGroups
           /\ issued' = issued
           /\ notifications'.count = notifications.count + 1
           /\ notifications'.last =
                (IF m.op = "grant" THEN "Could not grant permission to the "
                 ELSE "Could not remove permission from the ") \o m.kind ]_vars

\* a mutation has failed while grants were displayed
C3_Witness ==
  /\ notifications.count > 0
  /\ ~loading
  /\ grants # EmptyGrantSet

\* C4: a loadAll whose permission fetch failed completes with grants set to the
\* all-empty GrantSet and loading false, and raises no notification; a loadAll whose
\* group fetch failed completes with the group list empty.
C4_FailedFetchSettlesEmpty ==
  [][ \A l \in BagToSet(loads) :
        (loads' = Without(loads, l)) =>
           /\ (l.permSt = "failed") =>
                 /\ grants' = EmptyGrantSet
                 /\ ~loading'
                 /\ notifications' = notifications
           /\ LoadComplete(l, FALSE, "bare") => (allGroups' = << >> /\ ~loading') ]_vars

\* the server holds a grant, a reload's permission fetch has failed and the
\* display has settled to the all-empty GrantSet and no groups
C4_Witness ==
  /\ Quiescent /\ ~loading /\ permFailed
  /\ srv.view.groups # {}
  /\ grants = EmptyGrantSet
  /\ allGroups = << >>

\* C5: while a loadAll is in flight, loading is true.
C5_LoadingWhileInFlight == (loads # EmptyBag) => loading

\* C6: after the dialog was closed, no step changes loading, grants or groups, and no
\* new reload starts.
C6_NoEffectAfterClose ==
  [][ closed => /\ loading' = loading
                /\ grants' = grants
                /\ allGroups' = allGroups
                /\ BagCardinality(loads') <= BagCardinality(loads) ]_vars

\* C7: a lookup is only ever issued for the current search term (a keystroke within the
\* quiet interval cancels the pending one), and a lookup's result is applied to the
\* options, and clears the loading flag, only if it is the lookup of the current term.
C7_OnlyLatestTermApplied ==
  [][ /\ (Len(lookups') > Len(lookups)) =>
            lookups'[Len(lookups')].term = searchTerm
      /\ \A i \in 1..Len(lookups) :
            (lookups' = RemoveAt(lookups, i) /\ lookups[i].term # searchTerm) =>
               (users' = users /\ loadingUsers' = loadingUsers) ]_vars

\* C8: normalizePermissionsShape returns a GrantSet with exactly the keys view and
\* modify, each with a users and a groups sequence: a sequence under a key becomes
\* users with no groups; a mapping yields its users and groups where those are
\* sequences and empty sequences otherwise; an absent key, or a payload that is null,
\* undefined, {} or not an object, yields empty lists; a GrantSet of the current shape
\* is returned unchanged.
C8_Expected(d, key) ==
  LET val == d[key] IN
  CASE d.kind \notin {"object"} -> EmptyAccessList
    [] val.kind = "array" -> [users |-> val.items, groups |-> << >>]
    [] val.kind = "object" ->
         [users  |-> IF val.users.kind = "array" THEN val.users.items ELSE << >>,
          groups |-> IF val.groups.kind = "array" THEN val.groups.items ELSE << >>]
    [] OTHER -> EmptyAccessList

C8_NormalizedShape ==
  (npc = "return") =>
    /\ DOMAIN out = {"view", "modify"}
    /\ \A key \in {"view", "modify"} :
         /\ DOMAIN out[key] = {"users", "groups"}
         /\ out[key] = C8_Expected(data, key)
    /\ (/\ data.kind = "object"
        /\ \A key \in {"view", "modify"} :
              /\ data[key].kind = "object"
              /\ data[key].users.kind = "array"
              /\ data[key].groups.kind = "array")
         => AsPayload(out) = data
    /\ (data.kind = "object" /\ data.view.kind = "array" /\ data.modify.kind = "array")
         => out = [view   |-> [users |-> data.view.items, groups |-> << >>],
                   modify |-> [users |-> data.modify.items, groups |-> << >>]]

\* the legacy payload {view: [u1, u2], modify: []} has been normalized
C8_Witness ==
  /\ npc = "return"
  /\ data = Payload("object", CatArr(UserDir), CatArr(<< >>))
  /\ out = [view |-> [users |-> UserDir, groups |-> << >>], modify |-> EmptyAccessList]

\* C9: userHasPermission(u, t) is true exactly when u is the author or u's id is in
\* grants[t].users; so the users offered by the t-category search are the lookup's
\* results minus the author and minus the users of grants[t].users, whatever the
\* other category holds.
LookupResults == ListsOf(UserDir)

C9_UserFilter ==
  \A t \in ACCESS_TYPES :
    /\ \A u \in UserIds :
         userHasPermission(UserRec(u), t)
           <=> (u = author.id \/ \E k \in 1..Len(grants[t].users) : grants[t].users[k].id = u)
    /\ \A results \in LookupResults :
         LET offered == OfferedUsers(results, t)
         IN {offered[k].id : k \in 1..Len(offered)}
              = {results[k].id : k \in 1..Len(results)}
                  \ ({author.id} \cup {grants[t].users[k].id : k \in 1..Len(grants[t].users)})

\* a user holds view but not modify: offered for modify, not for view
C9_Witness ==
  /\ ~loading
  /\ \E u \in UserIds \ {author.id} :
       /\ u \in IdsOf(grants.view.users)
       /\ u \notin IdsOf(grants.modify.users)
       /\ u \in IdsOf(OfferedUsers(UserDir, "modify"))
       /\ u \notin IdsOf(OfferedUsers(UserDir, "view"))

\* C10: availableGroups is the loaded group directory, in its order, without the
\* groups whose id is in grants.view.groups or in grants.modify.groups.
C10_AvailableGroups ==
  LET granted == {grants.view.groups[k].id : k \in 1..Len(grants.view.groups)}
                   \cup {grants.modify.groups[k].id : k \in 1..Len(grants.modify.groups)}
  IN /\ {availableGroups[k].id : k \in 1..Len(availableGroups)}
          = {allGroups[k].id : k \in 1..Len(allGroups)} \ granted
     /\ \A k \in 1..Len(allGroups) :
          allGroups[k].id \notin granted => \E j \in 1..Len(availableGroups) :
                                               availableGroups[j] = allGroups[k]

\* a group of the loaded directory holds view only and is offered for neither category
C10_Witness ==
  /\ ~loading
  /\ \E g \in GroupIds :
       /\ g \in IdsOf(allGroups)
       /\ g \in IdsOf(grants.view.groups)
       /\ g \notin IdsOf(grants.modify.groups)
       /\ g \notin IdsOf(availableGroups)
====
